---- MODULE Spec2Model ----
(***************************************************************************)
(* A model of the command-line rock-paper-scissors game of src/main.rs.    *)
(*                                                                         *)
(* One run of `main` is a small sequential state machine: parse the move   *)
(* text, build the generator (seeded or from entropy), draw the opponent's *)
(* move, print it, print the verdict, return.  The program is started      *)
(* again and again with new arguments; the observable outcome of the       *)
(* previous run is kept in `prev` so that two runs can be compared.        *)
(*                                                                         *)
(* Text is modelled as a sequence of bytes (UTF-8), as a Rust `String` is. *)
(* Option<T> is modelled as a sequence of length 0 (None) or 1 (Some).     *)
(***************************************************************************)
EXTENDS Integers, Sequences, FiniteSets, TLC

VARIABLES
    pattern,        \* Cli.pattern: the move text given on the command line
    seed,           \* Cli.seed: Option<u64>
    pc,             \* position of main
    our_move,       \* Option<Move>: the local `our_move` once bound
    rng,            \* Option<StdRng>: the local `rng` once bound
    opponent_move,  \* Option<Move>: the local `opponent_move` once bound
    result,         \* Option<GameResult>: the scrutinee of the last match
    stdout,         \* what the run wrote to standard output, in order
    stderr,         \* what the run wrote to standard error, in order
    exit_code,      \* Option<int>: the process's exit status once it ended
    stdrng,         \* the generator algorithm: seed -> first gen_range(0..=2)
    prev            \* Option<summary> of the previous, finished run

vars == << pattern, seed, pc, our_move, rng, opponent_move, result,
           stdout, stderr, exit_code, stdrng, prev >>

(***************************************************************************)
(* Bounds                                                                  *)
(***************************************************************************)
\* Seeds 0..MaxSeed are tried, and seed 7 which the tests use.
MaxSeed == 2

Seeds == (0 .. MaxSeed) \cup {7}

None == << >>
Some(x) == << x >>

(***************************************************************************)
(* enum Move, enum GameResult                                              *)
(***************************************************************************)
Rock == "Move::Rock"
Paper == "Move::Paper"
Scissors == "Move::Scissors"
Move == {Rock, Paper, Scissors}

UserWin == "GameResult::UserWin"
OpponentWin == "GameResult::OpponentWin"
Tie == "GameResult::Tie"
GameResult == {UserWin, OpponentWin, Tie}

\* The discriminant of a variant: its position in the enum declaration.
Discriminant(m) ==
    IF m = Rock THEN 0 ELSE IF m = Paper THEN 1 ELSE 2

\* #[derive(PartialEq)]: two fieldless variants are equal iff their
\* discriminants are.
MoveEq(a, b) == Discriminant(a) = Discriminant(b)

\* #[derive(Debug)] prints the variant's name.
MoveDebug(m) ==
    IF m = Rock THEN "Rock" ELSE IF m = Paper THEN "Paper" ELSE "Scissors"

(***************************************************************************)
(* impl Distribution<Move> for Standard                                    *)
(***************************************************************************)
\* Mutation: the arm for 1 repeats the arm for 0.
sample_dup(draw) ==
    IF draw = 0 THEN Rock
    ELSE IF draw = 1 THEN Rock
    ELSE Scissors

sample(draw) ==
    IF draw = 0 THEN Rock
    ELSE IF draw = 1 THEN Paper
    ELSE Scissors

(***************************************************************************)
(* impl PartialOrd for Move                                                *)
(***************************************************************************)
\* Mutation: the (Paper, Scissors) arm says Greater.
partial_cmp_typo(self, other) ==
    CASE self = Rock /\ other = Rock -> Some("Equal")
      [] self = Rock /\ other = Paper -> Some("Less")
      [] self = Rock /\ other = Scissors -> Some("Greater")
      [] self = Paper /\ other = Rock -> Some("Greater")
      [] self = Paper /\ other = Paper -> Some("Equal")
      [] self = Paper /\ other = Scissors -> Some("Greater")
      [] self = Scissors /\ other = Rock -> Some("Less")
      [] self = Scissors /\ other = Paper -> Some("Greater")
      [] self = Scissors /\ other = Scissors -> Some("Equal")

\* Mutation: the (Rock, Rock) arm says Greater.
partial_cmp_diag(self, other) ==
    CASE self = Rock /\ other = Rock -> Some("Greater")
      [] self = Rock /\ other = Paper -> Some("Less")
      [] self = Rock /\ other = Scissors -> Some("Greater")
      [] self = Paper /\ other = Rock -> Some("Greater")
      [] self = Paper /\ other = Paper -> Some("Equal")
      [] self = Paper /\ other = Scissors -> Some("Less")
      [] self = Scissors /\ other = Rock -> Some("Less")
      [] self = Scissors /\ other = Paper -> Some("Greater")
      [] self = Scissors /\ other = Scissors -> Some("Equal")

partial_cmp(self, other) ==
    CASE self = Rock /\ other = Rock -> Some("Equal")
      [] self = Rock /\ other = Paper -> Some("Less")
      [] self = Rock /\ other = Scissors -> Some("Greater")
      [] self = Paper /\ other = Rock -> Some("Greater")
      [] self = Paper /\ other = Paper -> Some("Equal")
      [] self = Paper /\ other = Scissors -> Some("Less")
      [] self = Scissors /\ other = Rock -> Some("Less")
      [] self = Scissors /\ other = Paper -> Some("Greater")
      [] self = Scissors /\ other = Scissors -> Some("Equal")

\* The provided method PartialOrd::gt, which `user > opponent` calls.
MoveGt(a, b) == partial_cmp(a, b) = Some("Greater")

(***************************************************************************)
(* impl FromStr for Move                                                   *)
(***************************************************************************)
\* u8::to_ascii_lowercase: bytes 'A'..'Z' get bit 0x20 set, others are kept.
\* Mutation: the range of upper-case letters starts after 'A'.
to_ascii_lowercase_byte_gt(b) ==
    IF b > 65 /\ b <= 90 THEN b + 32 ELSE b

to_ascii_lowercase_byte(b) ==
    IF b >= 65 /\ b <= 90 THEN b + 32 ELSE b

\* str::to_ascii_lowercase: byte by byte; non-ASCII bytes are unchanged.
to_ascii_lowercase(s) ==
    [i \in 1 .. Len(s) |-> to_ascii_lowercase_byte(s[i])]

StrRock == << 114, 111, 99, 107 >>
StrPaper == << 112, 97, 112, 101, 114 >>
StrScissors == << 115, 99, 105, 115, 115, 111, 114, 115 >>

Ok(x) == [ok |-> TRUE, val |-> x]
Err(e) == [ok |-> FALSE, val |-> e]

from_str(s) ==
    LET l == to_ascii_lowercase(s) IN
    IF l = StrRock THEN Ok(Rock)
    ELSE IF l = StrPaper THEN Ok(Paper)
    ELSE IF l = StrScissors THEN Ok(Scissors)
    ELSE Err("clap::ErrorKind::InvalidValue")

(***************************************************************************)
(* fn calculate_winner                                                     *)
(***************************************************************************)
\* Mutation: the first comparison is >= instead of >.
calculate_winner_ge(user, opponent) ==
    IF MoveGt(user, opponent) \/ MoveEq(user, opponent) THEN UserWin
    ELSE IF MoveEq(user, opponent) THEN Tie
    ELSE OpponentWin

calculate_winner(user, opponent) ==
    IF MoveGt(user, opponent) THEN UserWin
    ELSE IF MoveEq(user, opponent) THEN Tie
    ELSE OpponentWin

(***************************************************************************)
(* The generator.  StdRng's algorithm is a fixed function of the seed; the *)
(* state of a generator is abstracted to the value its first              *)
(* gen_range(0..=2) returns and the number of draws taken from it.         *)
(***************************************************************************)
\* What the repository's tests pin down about the algorithm.
StdRngKnown(f) ==
    /\ (2 \in Seeds => f[2] = 0)
    /\ (7 \in Seeds => f[7] = 1)
    /\ (1 \in Seeds => f[1] = 2)

seed_from_u64(x) == [first |-> stdrng[x], draws |-> 0]

from_entropy == {[first |-> d, draws |-> 0] : d \in 0 .. 2}

\* Mutation: the seed is ignored.
NewRng_entropy(s) == from_entropy

\* match args.seed { None => from_entropy(), Some(x) => seed_from_u64(x) }
NewRng(s) ==
    IF s = None THEN from_entropy ELSE {seed_from_u64(s[1])}

(***************************************************************************)
(* The command lines tried                                                 *)
(***************************************************************************)
Texts ==
    { StrRock,                                      \* rock
      << 82, 79, 67, 75 >>,                         \* ROCK
      << 82, 111, 99, 107 >>,                       \* Rock
      StrPaper,                                     \* paper
      << 112, 65, 112, 69, 114 >>,                  \* pApEr
      StrScissors,                                  \* scissors
      << 83, 67, 73, 83, 83, 79, 82, 83 >>,         \* SCISSORS
      << 108, 105, 122, 97, 114, 100 >>,            \* lizard
      << 110, 111, 116, 114, 101, 97, 108 >>,       \* notreal
      << 98, 97, 110, 97, 110, 97 >>,               \* banana
      << >>,                                        \* the empty string
      << 32, 114, 111, 99, 107 >>,                  \* " rock"
      << 114, 111, 99, 107, 32 >>,                  \* "rock "
      << 114, 111, 99, 107, 115 >>,                 \* rocks
      << 114, 111, 99, 226, 132, 170 >> }           \* roc + KELVIN SIGN (U+212A)

SeedArgs == {None} \cup {Some(x) : x \in Seeds}

(***************************************************************************)
(* main                                                                    *)
(***************************************************************************)
Start(p, s) ==
    /\ pattern = p
    /\ seed = s
    /\ pc = "from_str"
    /\ our_move = None
    /\ rng = None
    /\ opponent_move = None
    /\ result = None
    /\ stdout = << >>
    /\ stderr = << >>
    /\ exit_code = None

Init ==
    /\ \E p \in Texts, s \in SeedArgs : Start(p, s)
    /\ stdrng \in {f \in [Seeds -> 0 .. 2] : StdRngKnown(f)}
    /\ prev = None

\* Mutation: an unrecognised text falls back to Rock instead of exiting.
ParseMove_default ==
    /\ pc = "from_str"
    /\ LET r == from_str(pattern) IN
       our_move' = Some(IF r.ok THEN r.val ELSE Rock)
    /\ pc' = "seed_rng"
    /\ UNCHANGED << pattern, seed, rng, opponent_move, result, stdout, stderr,
                    exit_code, stdrng, prev >>

\* let our_move = match Move::from_str(&args.pattern) { Ok(x) => x, Err(_) => ... }
ParseMove ==
    /\ pc = "from_str"
    /\ LET r == from_str(pattern) IN
       IF r.ok
       THEN /\ our_move' = Some(r.val)
            /\ pc' = "seed_rng"
       ELSE /\ our_move' = our_move
            /\ pc' = "invalid"
    /\ UNCHANGED << pattern, seed, rng, opponent_move, result, stdout, stderr,
                    exit_code, stdrng, prev >>

\* Mutation: the process exits with status 0 after the diagnostic.
ExitInvalid_zero ==
    /\ pc = "invalid"
    /\ stderr' = stderr \o << "Invalid move", "\n" >>
    /\ exit_code' = Some(0)
    /\ pc' = "exited"
    /\ UNCHANGED << pattern, seed, our_move, rng, opponent_move, result,
                    stdout, stdrng, prev >>

\* Err(_) => { eprintln!("Invalid move"); process::exit(1) }
ExitInvalid ==
    /\ pc = "invalid"
    /\ stderr' = stderr \o << "Invalid move", "\n" >>
    /\ exit_code' = Some(1)
    /\ pc' = "exited"
    /\ UNCHANGED << pattern, seed, our_move, rng, opponent_move, result,
                    stdout, stdrng, prev >>

\* let mut rng = match args.seed { ... }
SeedRng ==
    /\ pc = "seed_rng"
    /\ \E g \in NewRng(seed) : rng' = Some(g)
    /\ pc' = "gen"
    /\ UNCHANGED << pattern, seed, our_move, opponent_move, result, stdout,
                    stderr, exit_code, stdrng, prev >>

\* Mutation: the opponent's move is picked to beat the player's move.
GenMove_peek ==
    /\ pc = "gen"
    /\ rng[1].draws = 0
    /\ opponent_move' = Some(CHOOSE m \in Move : MoveGt(m, our_move[1]))
    /\ rng' = Some([rng[1] EXCEPT !.draws = @ + 1])
    /\ pc' = "print_move"
    /\ UNCHANGED << pattern, seed, our_move, result, stdout, stderr,
                    exit_code, stdrng, prev >>

\* let opponent_move : Move = rng.gen();
GenMove ==
    /\ pc = "gen"
    /\ rng[1].draws = 0
    /\ opponent_move' = Some(sample(rng[1].first))
    /\ rng' = Some([rng[1] EXCEPT !.draws = @ + 1])
    /\ pc' = "print_move"
    /\ UNCHANGED << pattern, seed, our_move, result, stdout, stderr,
                    exit_code, stdrng, prev >>

\* print!("Opponent's move: {:?}. ", opponent_move);
PrintMove ==
    /\ pc = "print_move"
    /\ stdout' = stdout \o << "Opponent's move: ", MoveDebug(opponent_move[1]), ". " >>
    /\ pc' = "print_result"
    /\ UNCHANGED << pattern, seed, our_move, rng, opponent_move, result,
                    stderr, exit_code, stdrng, prev >>

\* Mutation: the arguments of calculate_winner are swapped.
PrintResult_swapped ==
    /\ pc = "print_result"
    /\ LET w == calculate_winner(opponent_move[1], our_move[1]) IN
       /\ result' = Some(w)
       /\ stdout' = stdout \o
            << (IF w = UserWin THEN "You win!"
                ELSE IF w = Tie THEN "Tie"
                ELSE "You lose!"), "\n" >>
    /\ pc' = "return"
    /\ UNCHANGED << pattern, seed, our_move, rng, opponent_move, stderr,
                    exit_code, stdrng, prev >>

\* match calculate_winner(our_move, opponent_move) { ... println!(...) }
PrintResult ==
    /\ pc = "print_result"
    /\ LET w == calculate_winner(our_move[1], opponent_move[1]) IN
       /\ result' = Some(w)
       /\ stdout' = stdout \o
            << (IF w = UserWin THEN "You win!"
                ELSE IF w = Tie THEN "Tie"
                ELSE "You lose!"), "\n" >>
    /\ pc' = "return"
    /\ UNCHANGED << pattern, seed, our_move, rng, opponent_move, stderr,
                    exit_code, stdrng, prev >>

\* main returns: the process ends with status 0.
MainReturn ==
    /\ pc = "return"
    /\ exit_code' = Some(0)
    /\ pc' = "exited"
    /\ UNCHANGED << pattern, seed, our_move, rng, opponent_move, result,
                    stdout, stderr, stdrng, prev >>

\* What an observer keeps of a finished run.
Summary ==
    [ seed |-> seed, our_move |-> our_move, opponent_move |-> opponent_move,
      result |-> result, stdout |-> stdout, stderr |-> stderr,
      exit_code |-> exit_code,
      draws |-> IF rng = None THEN 0 ELSE rng[1].draws ]

\* The program is started again, with any command line.
Rerun ==
    /\ pc = "exited"
    /\ prev' = Some(Summary)
    /\ \E p \in Texts, s \in SeedArgs :
          /\ pattern' = p
          /\ seed' = s
    /\ pc' = "from_str"
    /\ our_move' = None
    /\ rng' = None
    /\ opponent_move' = None
    /\ result' = None
    /\ stdout' = << >>
    /\ stderr' = << >>
    /\ exit_code' = None
    /\ UNCHANGED stdrng

Next ==
    \/ ParseMove
    \/ ExitInvalid
    \/ SeedRng
    \/ GenMove
    \/ PrintMove
    \/ PrintResult
    \/ MainReturn
    \/ Rerun

Spec == Init /\ [][Next]_vars

\* A started process is scheduled until it ends; nobody is obliged to start
\* the program again.
Run ==
    \/ ParseMove
    \/ ExitInvalid
    \/ SeedRng
    \/ GenMove
    \/ PrintMove
    \/ PrintResult
    \/ MainReturn

FairSpec == Spec /\ WF_vars(Run)

TypeOK ==
    /\ pattern \in Texts
    /\ seed \in SeedArgs
    /\ pc \in {"from_str", "invalid", "seed_rng", "gen", "print_move",
               "print_result", "return", "exited"}
    /\ our_move \in {None} \cup {Some(m) : m \in Move}
    /\ opponent_move \in {None} \cup {Some(m) : m \in Move}
    /\ result \in {None} \cup {Some(g) : g \in GameResult}
    /\ exit_code \in {None, Some(0), Some(1)}

(***************************************************************************)
(* The specification's side of the properties: the dominance table and the *)
(* recognised move texts, written down from the specification.             *)
(***************************************************************************)
DominanceTable(player, opponent) ==
    CASE player = Rock /\ opponent = Rock -> Tie
      [] player = Rock /\ opponent = Paper -> OpponentWin
      [] player = Rock /\ opponent = Scissors -> UserWin
      [] player = Paper /\ opponent = Rock -> UserWin
      [] player = Paper /\ opponent = Paper -> Tie
      [] player = Paper /\ opponent = Scissors -> OpponentWin
      [] player = Scissors /\ opponent = Rock -> OpponentWin
      [] player = Scissors /\ opponent = Paper -> UserWin
      [] player = Scissors /\ opponent = Scissors -> Tie

Inverse(g) ==
    IF g = UserWin THEN OpponentWin ELSE IF g = OpponentWin THEN UserWin ELSE Tie

OutcomePhrase(g) ==
    IF g = UserWin THEN "You win!" ELSE IF g = Tie THEN "Tie" ELSE "You lose!"

\* s is the word w (given in lower case) in some letter casing: each byte is
\* the word's lower-case letter or the corresponding upper-case letter.
SameWordAnyCasing(s, w) ==
    /\ Len(s) = Len(w)
    /\ \A i \in 1 .. Len(w) : s[i] = w[i] \/ s[i] = w[i] - 32

Recognized(s) ==
    \/ SameWordAnyCasing(s, StrRock)
    \/ SameWordAnyCasing(s, StrPaper)
    \/ SameWordAnyCasing(s, StrScissors)

\* The verdict has been computed in this run.
Compared == result # None

\* The previous run and this one both drew an opponent move from the same seed.
SameSeedDrawn ==
    /\ prev # None
    /\ seed # None
    /\ prev[1].seed = seed
    /\ opponent_move # None
    /\ prev[1].opponent_move # None

\* C1: for each of the 9 pairs (player, opponent), calculate_winner returns
\* the entry of the dominance table; in particular the verdict a run computes
\* is the table's entry for its two moves.
C1_DominanceTable ==
    /\ \A a \in Move, b \in Move : calculate_winner(a, b) = DominanceTable(a, b)
    /\ Compared => result[1] = DominanceTable(our_move[1], opponent_move[1])

C1_Witness ==
    /\ Compared
    /\ our_move = Some(Scissors)
    /\ opponent_move = Some(Paper)
    /\ result = Some(UserWin)

\* C2: the verdict is one of UserWin, Tie, OpponentWin, and the verdict for
\* (a,b) is the inverse of the verdict for (b,a): whenever two runs compared
\* mirrored pairs, one's UserWin is the other's OpponentWin and Tie is Tie.
C2_Inverse ==
    /\ \A a \in Move, b \in Move :
          /\ calculate_winner(a, b) \in GameResult
          /\ calculate_winner(a, b) = Inverse(calculate_winner(b, a))
    /\ Compared => result[1] \in GameResult
    /\ ( /\ Compared
         /\ prev # None
         /\ prev[1].result # None
         /\ prev[1].our_move = opponent_move
         /\ prev[1].opponent_move = our_move )
       => result[1] = Inverse(prev[1].result[1])

C2_Witness ==
    /\ Compared
    /\ prev # None
    /\ prev[1].our_move = Some(Paper)
    /\ prev[1].opponent_move = Some(Scissors)
    /\ prev[1].result = Some(OpponentWin)
    /\ our_move = Some(Scissors)
    /\ opponent_move = Some(Paper)
    /\ result = Some(UserWin)

\* C3: the verdict is Tie exactly when the two moves are the same move, and
\* the derived equality and the hand-written ordering agree: no pair is both
\* greater and equal, and partial_cmp says Equal exactly on equal moves.
C3_TieIffSame ==
    /\ \A a \in Move : calculate_winner(a, a) = Tie
    /\ \A a \in Move, b \in Move :
          /\ (calculate_winner(a, b) = Tie) <=> (a = b)
          /\ ~(MoveGt(a, b) /\ MoveEq(a, b))
          /\ (partial_cmp(a, b) = Some("Equal")) <=> MoveEq(a, b)
    /\ Compared => ((result[1] = Tie) <=> (our_move = opponent_move))

C3_Witness ==
    /\ Compared
    /\ our_move = Some(Paper)
    /\ opponent_move = Some(Paper)
    /\ result = Some(Tie)

\* C4: from_str gives Rock, Paper or Scissors exactly for the texts that are
\* "rock", "paper" or "scissors" in some letter casing, and an error (and no
\* move) for every other text.
C4_FromStr ==
    /\ \A t \in Texts :
          /\ from_str(t).ok <=> Recognized(t)
          /\ SameWordAnyCasing(t, StrRock) => from_str(t) = Ok(Rock)
          /\ SameWordAnyCasing(t, StrPaper) => from_str(t) = Ok(Paper)
          /\ SameWordAnyCasing(t, StrScissors) => from_str(t) = Ok(Scissors)
    /\ pc # "from_str" =>
          /\ SameWordAnyCasing(pattern, StrRock) <=> our_move = Some(Rock)
          /\ SameWordAnyCasing(pattern, StrPaper) <=> our_move = Some(Paper)
          /\ SameWordAnyCasing(pattern, StrScissors) <=> our_move = Some(Scissors)
          /\ ~Recognized(pattern) <=> our_move = None

C4_Witness ==
    /\ pc = "seed_rng"
    /\ pattern = << 112, 65, 112, 69, 114 >>
    /\ our_move = Some(Paper)
    /\ prev # None
    /\ prev[1].our_move = None

\* C5: when the move text is not a recognised move, the run never builds a
\* generator, never draws an opponent move and never writes to standard
\* output, whatever the seed; once it has ended, the diagnostic is on the error
\* stream and the exit status is non-zero.
C5_InvalidMove ==
    ~Recognized(pattern) =>
        /\ rng = None
        /\ opponent_move = None
        /\ result = None
        /\ stdout = << >>
        /\ exit_code # Some(0)
        /\ pc \in {"from_str", "invalid", "exited"}
        /\ pc = "exited" =>
              /\ stderr = << "Invalid move", "\n" >>
              /\ exit_code # None
              /\ exit_code[1] # 0

C5_Witness ==
    /\ pc = "exited"
    /\ pattern = << 98, 97, 110, 97, 110, 97 >>
    /\ seed = Some(7)
    /\ exit_code = Some(1)
    /\ stderr = << "Invalid move", "\n" >>

\* C6: two runs given the same seed draw the same opponent move, and two
\* finished runs with the same seed and the same player move have written
\* the same output.
C6_SeedDeterminism ==
    /\ SameSeedDrawn => opponent_move = prev[1].opponent_move
    /\ ( /\ SameSeedDrawn
         /\ pc = "exited"
         /\ our_move = prev[1].our_move )
       => /\ stdout = prev[1].stdout
          /\ exit_code = prev[1].exit_code
    /\ (pc = "gen" /\ seed # None) => rng = Some(seed_from_u64(seed[1]))

C6_Witness ==
    /\ SameSeedDrawn
    /\ seed = Some(0)
    /\ pc = "exited"
    /\ our_move = prev[1].our_move
    /\ stdout = prev[1].stdout
    /\ Len(stdout) = 5

\* C7: a finished run with a valid move has written exactly one line: the
\* label of the opponent move that was drawn, then the phrase of the
\* dominance table's entry for (player's move, that opponent move); and what
\* is written before the end is a prefix of that line.
ResultLine ==
    << "Opponent's move: ",
       CASE opponent_move = Some(Rock) -> "Rock"
         [] opponent_move = Some(Paper) -> "Paper"
         [] opponent_move = Some(Scissors) -> "Scissors",
       ". ",
       OutcomePhrase(DominanceTable(our_move[1], opponent_move[1])),
       "\n" >>

C7_OutputLine ==
    /\ (pc \in {"return", "exited"} /\ Recognized(pattern)) => stdout = ResultLine
    /\ stdout # << >> =>
          /\ Recognized(pattern)
          /\ opponent_move # None
          /\ Len(stdout) <= Len(ResultLine)
          /\ stdout = SubSeq(ResultLine, 1, Len(stdout))
    /\ Cardinality({i \in 1 .. Len(stdout) : stdout[i] = "\n"}) <= 1

C7_Witness ==
    /\ pc = "exited"
    /\ pattern = StrRock
    /\ seed = None
    /\ stdout = << "Opponent's move: ", "Paper", ". ", "You lose!", "\n" >>

\* C8 (safety part): the exit status is 0 exactly for a run that parsed its
\* move and printed the opponent move and the verdict, and 1 exactly for a
\* run whose move text was not recognised.
ExitCodeOK ==
    /\ (pc = "exited") <=> (exit_code # None)
    /\ exit_code = Some(0) <=>
          (pc = "exited" /\ Recognized(pattern) /\ Len(stdout) = 5)
    /\ exit_code = Some(1) <=> (pc = "exited" /\ ~Recognized(pattern))

\* C8: every run terminates, with exit status 0 on normal completion and a
\* non-zero exit status when the move text fails to parse.
C8_ExitCodes ==
    /\ []ExitCodeOK
    /\ (pc = "from_str") ~> (pc = "exited")

C8_Witness ==
    /\ pc = "exited"
    /\ exit_code = Some(0)
    /\ prev # None
    /\ prev[1].exit_code = Some(1)

\* C9: the draw is mapped to the move by a fixed bijection on {0,1,2}: 0 is
\* Rock, 1 is Paper, 2 is Scissors; the opponent move of a run is the image
\* of the run's draw, always one of the three moves, and all three occur.
C9_DrawMapping ==
    /\ sample(0) = Rock /\ sample(1) = Paper /\ sample(2) = Scissors
    /\ \A d \in 0 .. 2, e \in 0 .. 2 : sample(d) = sample(e) => d = e
    /\ {sample(d) : d \in 0 .. 2} = Move
    /\ opponent_move # None =>
          /\ opponent_move[1] \in Move
          /\ rng[1].first = 0 <=> opponent_move[1] = Rock
          /\ rng[1].first = 1 <=> opponent_move[1] = Paper
          /\ rng[1].first = 2 <=> opponent_move[1] = Scissors

C9_Witness ==
    /\ seed = Some(7)
    /\ opponent_move = Some(Paper)
    /\ prev # None
    /\ prev[1].seed = Some(1)
    /\ prev[1].opponent_move = Some(Scissors)

\* C10: the opponent move does not depend on the player's move: two runs with
\* the same seed draw the same opponent move whatever the player entered;
\* a run takes exactly one draw, from a generator initialised in that run,
\* after the player's move is parsed and before anything is printed.
C10_OpponentIndependent ==
    /\ SameSeedDrawn => opponent_move = prev[1].opponent_move
    /\ rng # None =>
          /\ our_move # None
          /\ rng[1].draws <= 1
          /\ (rng[1].draws = 1) <=> (opponent_move # None)
          /\ [rng[1] EXCEPT !.draws = 0] \in NewRng(seed)
    /\ rng = None => opponent_move = None
    /\ stdout # << >> => (rng # None /\ rng[1].draws = 1)
    /\ exit_code = Some(0) => (rng # None /\ rng[1].draws = 1)
    /\ (prev # None /\ prev[1].exit_code = Some(0)) => prev[1].draws = 1

C10_Witness ==
    /\ SameSeedDrawn
    /\ seed = Some(0)
    /\ our_move = Some(Rock)
    /\ prev[1].our_move = Some(Scissors)
    /\ pc = "exited"
====
